---- MODULE Spec2Model ----
(***************************************************************************)
(* A model of the NVIDIA GPU exporter of src/src/main.rs: the Collector    *)
(* (Collector::new, Collector::collect, Collector::process) and the hyper  *)
(* service built in main, which constructs one Collector per accepted      *)
(* connection and routes GET /metrics, GET /gpustat and everything else.   *)
(*                                                                         *)
(* The Telemetry Source (NVML), procfs and the user database are outside   *)
(* the repository: what they answer during one pass is an input, a         *)
(* "snapshot" recording the device count, which calls fail, how many       *)
(* compute processes each device runs and the load (0 or 1) its sensors    *)
(* show.                                                                   *)
(***************************************************************************)
EXTENDS Integers, Sequences, FiniteSets, TLC

VARIABLES
    server,   \* "listening" | "crashed": the process of main
    conns,    \* connection id -> the connection's service (its own Collector)
    inits,    \* how many times Collector::new has run in this process
    served,   \* TRUE once the process has answered a request
    last,     \* the last request a client made and what came back
    call      \* one direct application of collect / process (SpecCollect, SpecProcess)

vars == <<server, conns, inits, served, last, call>>

----------------------------------------------------------------------------
(* Bounds of the model *)

MaxDevices == 2     \* device_count() answers 0 .. MaxDevices
MaxProcs == 2       \* running_compute_processes() answers at most MaxProcs entries
MaxFailures == 1    \* failing calls per pass in the server specification
MaxConns == 1       \* connections open at the same time
MaxInits == 2       \* connections accepted over the life of the process

Devices == 0 .. (MaxDevices - 1)
ConnIds == 1 .. MaxConns

----------------------------------------------------------------------------
(* Program constants *)

NAMESPACE == "nvidia_gpu"
LABELS == <<"minor_number", "uuid", "name">>
PROCESS_LABELS == <<"minor_number", "uuid", "name", "pid", "user", "command">>

\* The metrics Collector::new creates and registers, in the order of the code.
MetricTable ==
    << [name |-> "num_devices",               labels |-> <<>>],
       [name |-> "gpu_utilization",           labels |-> LABELS],
       [name |-> "memory_utilization",        labels |-> LABELS],
       [name |-> "power_usage_milliwatts",    labels |-> LABELS],
       [name |-> "temperature_celsius",       labels |-> LABELS],
       [name |-> "fanspeed_percent",          labels |-> LABELS],
       [name |-> "memory_total_bytes",        labels |-> LABELS],
       [name |-> "memory_free_bytes",         labels |-> LABELS],
       [name |-> "memory_used_bytes",         labels |-> LABELS],
       [name |-> "process_memory_used_bytes", labels |-> PROCESS_LABELS] >>

----------------------------------------------------------------------------
(* The Telemetry Source and the Process Identity Source during one pass *)

\* The calls made on a device: the four that `?` propagates in collect, the
\* five sensor reads guarded by `if let Ok`, and the process enumeration.
IdentityCalls == {"device_by_index", "minor_number", "uuid", "name"}
SensorCalls == {"utilization_rates", "power_usage", "temperature",
                "fan_speed", "memory_info"}
EnumCall == "running_compute_processes"
\* The steps that resolve one process: procfs::process::Process::new,
\* cmdline(), users::get_user_by_uid, owner.name().to_str().
ProcSteps == {"procfs", "cmdline", "owner", "username"}

DevCall(d, c) == [dev |-> d, proc |-> 0, call |-> c]
ProcCall(d, i, c) == [dev |-> d, proc |-> i, call |-> c]

CallOk(s, d, c) == DevCall(d, c) \notin s.fail
StepOk(s, d, i, c) == ProcCall(d, i, c) \notin s.fail

\* What the device at index d answers when the call succeeds. Readings are
\* unsigned (u32, u64) and far below 2^63, where `as i64` keeps the value.
MinorNumber(d) == d
Uuid(d) == "GPU-" \o ToString(d)
Name(d) == "Tesla T4"
Utilization(s, d) == [gpu |-> 30 + 10 * d + s.load, memory |-> 20 + 10 * d + s.load]
PowerUsage(s, d) == 70000 + 1000 * d + s.load
Temperature(s, d) == 60 + 5 * d + s.load
FanSpeed(s, d) == 40 + 10 * d + s.load
MemoryInfo(s, d) ==
    [total |-> 16000, free |-> 16000 - (1000 * (d + 1) + s.load),
     used |-> 1000 * (d + 1) + s.load]
Pid(d, i) == 100 * (d + 1) + i

\* labels: [&str; 3] = [&minor_number, &uuid, &name]
DeviceLabels(d) == <<ToString(MinorNumber(d)), Uuid(d), Name(d)>>

----------------------------------------------------------------------------
(* The registry and its gauges *)

EmptyRegistry == [families |-> {}, num_devices |-> 0, series |-> {}]

FamilyNames(reg) == {f.name : f \in reg.families}

\* Registry::register: a name registered twice is an error.
Register(reg, m) ==
    IF m.name \in FamilyNames(reg)
    THEN [ok |-> FALSE, registry |-> reg]
    ELSE [ok |-> TRUE, registry |-> [reg EXCEPT !.families = @ \cup {m}]]

RECURSIVE RegisterAll(_, _)
RegisterAll(reg, table) ==
    IF table = <<>> THEN [ok |-> TRUE, registry |-> reg]
    ELSE LET r == Register(reg, Head(table))
         IN IF r.ok THEN RegisterAll(r.registry, Tail(table)) ELSE r

\* Collector::new: NVML::init()?, then every metric created and registered.
CollectorNew(nvmlOk) ==
    IF ~nvmlOk THEN [ok |-> FALSE, registry |-> EmptyRegistry]
    ELSE RegisterAll(EmptyRegistry, MetricTable)

NewRegistry == CollectorNew(TRUE).registry

\* get_metric_with_label_values: an error unless as many values are given as
\* the family has label names.
MetricNames == {MetricTable[k].name : k \in DOMAIN MetricTable}
LabelSchema ==
    [n \in MetricNames |->
        (CHOOSE m \in {MetricTable[k] : k \in DOMAIN MetricTable} : m.name = n).labels]
LabelsFit(metric, labels) == Len(labels) = Len(LabelSchema[metric])

\* IntGauge::set on the child of `metric` under `labels`, created when absent.
SetGauge(reg, metric, labels, v) ==
    [reg EXCEPT !.series =
        {x \in @ : ~(x.metric = metric /\ x.labels = labels)}
            \cup {[metric |-> metric, labels |-> labels, value |-> v]}]


----------------------------------------------------------------------------
(* Collector::collect *)

\* SensorWrites with every `if let Ok` turned into an early exit: the first
\* sensor read that fails ends the device's writes.
SensorWritesUntilFailure(s, d) ==
    IF ~CallOk(s, d, "utilization_rates") THEN <<>>
    ELSE << <<"gpu_utilization", Utilization(s, d).gpu>>,
            <<"memory_utilization", Utilization(s, d).memory>> >> \o
    (IF ~CallOk(s, d, "power_usage") THEN <<>>
     ELSE << <<"power_usage_milliwatts", PowerUsage(s, d)>> >> \o
    (IF ~CallOk(s, d, "temperature") THEN <<>>
     ELSE << <<"temperature_celsius", Temperature(s, d)>> >> \o
    (IF ~CallOk(s, d, "fan_speed") THEN <<>>
     ELSE << <<"fanspeed_percent", FanSpeed(s, d)>> >> \o
    (IF ~CallOk(s, d, "memory_info") THEN <<>>
     ELSE << <<"memory_total_bytes", MemoryInfo(s, d).total>>,
             <<"memory_free_bytes", MemoryInfo(s, d).free>>,
             <<"memory_used_bytes", MemoryInfo(s, d).used>> >>))))

\* The gauge writes of one device, in the order of the code: each sensor
\* read that succeeds contributes its writes, one that fails contributes none.
SensorWrites(s, d) ==
    (IF CallOk(s, d, "utilization_rates")
     THEN << <<"gpu_utilization", Utilization(s, d).gpu>>,
             <<"memory_utilization", Utilization(s, d).memory>> >>
     ELSE <<>>)
    \o (IF CallOk(s, d, "power_usage")
        THEN << <<"power_usage_milliwatts", PowerUsage(s, d)>> >> ELSE <<>>)
    \o (IF CallOk(s, d, "temperature")
        THEN << <<"temperature_celsius", Temperature(s, d)>> >> ELSE <<>>)
    \o (IF CallOk(s, d, "fan_speed")
        THEN << <<"fanspeed_percent", FanSpeed(s, d)>> >> ELSE <<>>)
    \o (IF CallOk(s, d, "memory_info")
        THEN << <<"memory_total_bytes", MemoryInfo(s, d).total>>,
                <<"memory_free_bytes", MemoryInfo(s, d).free>>,
                <<"memory_used_bytes", MemoryInfo(s, d).used>> >>
        ELSE <<>>)

\* get_metric_with_label_values(&labels)?.set(v) for each write in turn.
RECURSIVE ApplyWrites(_, _, _, _)
ApplyWrites(reg, labels, writes, k) ==
    IF k > Len(writes) THEN [ok |-> TRUE, registry |-> reg]
    ELSE IF ~LabelsFit(writes[k][1], labels) THEN [ok |-> FALSE, registry |-> reg]
    ELSE ApplyWrites(SetGauge(reg, writes[k][1], labels, writes[k][2]), labels, writes, k + 1)

IdentityOk(s, d) == \A c \in IdentityCalls : CallOk(s, d, c)

\* The body of `for device_num in 0..num_devices`, from device d on.
RECURSIVE CollectFrom(_, _, _)
CollectFrom(reg, s, d) ==
    IF d >= s.count THEN [ok |-> TRUE, registry |-> reg]
    ELSE IF ~IdentityOk(s, d) THEN [ok |-> FALSE, registry |-> reg]
    ELSE LET w == ApplyWrites(reg, DeviceLabels(d), SensorWrites(s, d), 1)
         IN IF w.ok THEN CollectFrom(w.registry, s, d + 1) ELSE w

\* collect with num_devices set only once the device loop has finished.
collectCountAfterLoop(reg, s) ==
    IF ~s.countOk THEN [ok |-> FALSE, registry |-> reg]
    ELSE IF \A d \in 0 .. (s.count - 1) : IdentityOk(s, d)
         THEN CollectFrom([reg EXCEPT !.num_devices = s.count], s, 0)
         ELSE CollectFrom(reg, s, 0)

\* let num_devices = device_count()?; num_devices_gauge.set(..); the loop.
collect(reg, s) ==
    IF ~s.countOk THEN [ok |-> FALSE, registry |-> reg]
    ELSE CollectFrom([reg EXCEPT !.num_devices = s.count], s, 0)

----------------------------------------------------------------------------
(* Collector::process *)

\* format!("[{}] {}|{}°C {}%| {} / {} MB", device_num, name, temperature,
\*         gpu_usage, memory_info.used, memory_info.total), as its pieces
\* (the degree sign is written "deg").
GpustatLine(s, d) ==
    << "[", ToString(d), "] ", Name(d), "|", ToString(Temperature(s, d)), "degC ",
       ToString(Utilization(s, d).gpu), "%| ", ToString(MemoryInfo(s, d).used),
       " / ", ToString(MemoryInfo(s, d).total), " MB" >>

\* The `.expect(..)` calls inside `if let Ok(proc) = Process::new(pid)`.
ExpectsHold(s, d, i) ==
    /\ StepOk(s, d, i, "cmdline")
    /\ StepOk(s, d, i, "owner")
    /\ CallOk(s, d, "temperature")
    /\ CallOk(s, d, "utilization_rates")
    /\ CallOk(s, d, "memory_info")
    /\ StepOk(s, d, i, "username")

\* ProcessEntries without the `if let Ok(proc)`: an entry whose lookup in the
\* process table fails gets a line all the same.
RECURSIVE ProcessEntriesKeepUnresolved(_, _, _, _)
ProcessEntriesKeepUnresolved(s, d, i, lines) ==
    IF i > s.nprocs[d] THEN [status |-> "Ok", lines |-> lines]
    ELSE IF StepOk(s, d, i, "procfs") /\ ~ExpectsHold(s, d, i)
         THEN [status |-> "Panic", lines |-> lines]
    ELSE ProcessEntriesKeepUnresolved(s, d, i + 1, Append(lines, GpustatLine(s, d)))

\* `for process in processes`, from the i-th entry of device d on.
RECURSIVE ProcessEntries(_, _, _, _)
ProcessEntries(s, d, i, lines) ==
    IF i > s.nprocs[d] THEN [status |-> "Ok", lines |-> lines]
    ELSE IF ~StepOk(s, d, i, "procfs") THEN ProcessEntries(s, d, i + 1, lines)
    ELSE IF ~ExpectsHold(s, d, i) THEN [status |-> "Panic", lines |-> lines]
    ELSE ProcessEntries(s, d, i + 1, Append(lines, GpustatLine(s, d)))

\* `for device_num in 0..num_devices`, from device d on.
RECURSIVE ProcessFrom(_, _, _)
ProcessFrom(s, d, lines) ==
    IF d >= s.count THEN [status |-> "Ok", lines |-> lines]
    ELSE IF ~(IdentityOk(s, d) /\ CallOk(s, d, EnumCall))
         THEN [status |-> "Err", lines |-> lines]
    ELSE LET r == ProcessEntries(s, d, 1, lines)
         IN IF r.status = "Ok" THEN ProcessFrom(s, d + 1, r.lines) ELSE r

\* lines.join("\n")
RECURSIVE Join(_)
Join(lines) ==
    IF lines = <<>> THEN <<>>
    ELSE IF Len(lines) = 1 THEN Head(lines)
    ELSE Head(lines) \o <<"\n">> \o Join(Tail(lines))

\* Collector::process: Ok(text), Err, or a panic from one of the expects.
process(s) ==
    IF ~s.countOk THEN [status |-> "Err", text |-> <<>>]
    ELSE LET r == ProcessFrom(s, 0, <<>>)
         IN [status |-> r.status, text |-> IF r.status = "Ok" THEN Join(r.lines) ELSE <<>>]

----------------------------------------------------------------------------
(* The service of main *)

\* TextEncoder::encode(&registry.gather()): one sample per gauge child, each
\* name prefixed with the namespace; a family without children has no sample.
SampleName(name) == NAMESPACE \o "_" \o name
Sample(name, labels, v) == [name |-> SampleName(name), labels |-> labels, value |-> v]
Gather(reg) ==
    (IF "num_devices" \in FamilyNames(reg)
     THEN {Sample("num_devices", <<>>, reg.num_devices)} ELSE {})
    \cup {Sample(x.metric, x.labels, x.value) : x \in reg.series}

TEXT_FORMAT == "text/plain; version=0.0.4"

\* match (req.method(), req.uri().path())
Route(method, path) ==
    IF method = "GET" /\ path = "/metrics" THEN "metrics"
    ELSE IF method = "GET" /\ path = "/gpustat" THEN "gpustat"
    ELSE "not_found"

\* What the service closure does with a request on a collector whose registry
\* is reg: the response, the registry afterwards, and whether an expect
\* panicked (no response is written then).
Respond(reg, method, path, s) ==
    IF Route(method, path) = "metrics" THEN
        LET r == collect(reg, s)
        IN IF r.ok
           THEN [panicked |-> FALSE, registry |-> r.registry, status |-> 200,
                 contentType |-> TEXT_FORMAT, body |-> Gather(r.registry)]
           ELSE [panicked |-> TRUE, registry |-> r.registry, status |-> 0,
                 contentType |-> "", body |-> {}]
    ELSE IF Route(method, path) = "gpustat" THEN
        LET p == process(s)
        IN IF p.status = "Ok"
           THEN [panicked |-> FALSE, registry |-> reg, status |-> 200,
                 contentType |-> TEXT_FORMAT, body |-> p.text]
           ELSE [panicked |-> TRUE, registry |-> reg, status |-> 0,
                 contentType |-> "", body |-> <<>>]
    ELSE [panicked |-> FALSE, registry |-> reg, status |-> 404,
          contentType |-> "", body |-> "Not found"]

----------------------------------------------------------------------------
(* The answers a pass can meet *)

NoProcs == [d \in Devices |-> 0]
Snapshot(n, f, l, np) ==
    [countOk |-> TRUE, count |-> n, fail |-> f, load |-> l, nprocs |-> np]
\* device_count() itself fails: nothing else is asked, whatever runs.
CountFailed(np) ==
    [countOk |-> FALSE, count |-> 0, fail |-> {}, load |-> 0, nprocs |-> np]

\* The subsets of S with at most k elements.
RECURSIVE UpTo(_, _)
UpTo(S, k) ==
    IF k = 0 THEN {{}}
    ELSE LET P == UpTo(S, k - 1) IN P \cup {p \cup {x} : p \in P, x \in S}

DevCalls(n, kinds) == {DevCall(d, c) : d \in 0 .. (n - 1), c \in kinds}
\* The process tables of n devices: devices beyond the count run nothing.
ProcTables(n) ==
    {np \in [Devices -> 0 .. MaxProcs] : \A d \in Devices : d >= n => np[d] = 0}
ProcCalls(np) ==
    {x \in {ProcCall(d, i, c) : d \in Devices, i \in 1 .. MaxProcs, c \in ProcSteps} :
        x.proc <= np[x.dev]}

\* The calls collect makes, and the calls process makes.
CollectCalls(n) == DevCalls(n, IdentityCalls \cup SensorCalls)
ProcessSensors == {"temperature", "utilization_rates", "memory_info"}
ProcessCalls(n, np) ==
    DevCalls(n, IdentityCalls \cup {EnumCall} \cup ProcessSensors) \cup ProcCalls(np)

IdleSnapshot == Snapshot(0, {}, 0, NoProcs)

Methods == {"GET", "POST"}
Paths == {"/metrics", "/gpustat", "/unknown"}

----------------------------------------------------------------------------
(* The process: main, its connections and their requests *)

Closed == [open |-> FALSE, registry |-> EmptyRegistry, aborted |-> FALSE]
NoRequest ==
    [conn |-> 0, method |-> "", path |-> "", snap |-> IdleSnapshot, answered |-> FALSE,
     status |-> 0, contentType |-> "", body |-> "", aborted |-> FALSE]
NoCall ==
    [method |-> "", path |-> "", snap |-> IdleSnapshot, before |-> EmptyRegistry,
     done |-> FALSE,
     response |-> [panicked |-> FALSE, registry |-> EmptyRegistry, status |-> 0,
                   contentType |-> "", body |-> ""]]

\* A service that outlives the failed request, as one answering with an error
\* status would.
TaskSurvives(conn) == conn

\* A panic inside the service closure unwinds the connection's task: the
\* service, and with it the Collector the closure owns, is dropped.
TaskPanicked(conn) == Closed

Init ==
    /\ server = "listening"
    /\ conns = [c \in ConnIds |-> Closed]
    /\ inits = 0
    /\ served = FALSE
    /\ last = NoRequest
    /\ call = NoCall

\* make_service_fn's closure, run by the accept loop inside main's task:
\* Collector::new().expect(..) panics main when construction fails.
Accept(c, nvmlOk) ==
    /\ server = "listening"
    /\ ~conns[c].open
    /\ inits < MaxInits
    /\ inits' = inits + 1
    /\ LET n == CollectorNew(nvmlOk)
       IN IF n.ok
          THEN /\ conns' = [conns EXCEPT ![c] =
                              [open |-> TRUE, registry |-> n.registry, aborted |-> FALSE]]
               /\ server' = server
          ELSE /\ conns' = [k \in ConnIds |-> Closed]
               /\ server' = "crashed"
    /\ UNCHANGED <<served, last, call>>

\* service_fn's closure on one request of an open connection.
Request(c, method, path, s) ==
    /\ server = "listening"
    /\ conns[c].open
    /\ \E r \in {Respond(conns[c].registry, method, path, s)} :
          /\ conns' = [conns EXCEPT ![c] =
                IF r.panicked
                THEN TaskPanicked([open |-> TRUE, registry |-> r.registry, aborted |-> TRUE])
                ELSE [open |-> TRUE, registry |-> r.registry, aborted |-> conns[c].aborted]]
          /\ last' = [conn |-> c, method |-> method, path |-> path, snap |-> s,
                      answered |-> ~r.panicked, status |-> r.status,
                      contentType |-> r.contentType, body |-> r.body,
                      aborted |-> conns[c].aborted]
          /\ served' = (served \/ ~r.panicked)
    /\ UNCHANGED <<server, inits, call>>

\* A request sent to the process after main has panicked: nobody answers.
Unanswered(method, path) ==
    /\ server = "crashed"
    /\ last' = [NoRequest EXCEPT !.method = method, !.path = path]
    /\ UNCHANGED <<server, conns, inits, served, call>>

\* The client closes the connection: its service is dropped.
Close(c) ==
    /\ conns[c].open
    /\ conns' = [conns EXCEPT ![c] = Closed]
    /\ UNCHANGED <<server, inits, served, last, call>>

\* GET /metrics on an open connection. The pass meets at most MaxFailures
\* failing calls, the sensors at load 0.
Metrics(c) ==
    /\ conns[c].open
    /\ \/ Request(c, "GET", "/metrics", CountFailed(NoProcs))
       \/ \E n \in 0 .. MaxDevices :
            \E f \in UpTo(CollectCalls(n), MaxFailures) :
               Request(c, "GET", "/metrics", Snapshot(n, f, 0, NoProcs))

\* GET /gpustat on an open connection, with at most MaxFailures failing calls.
Gpustat(c) ==
    /\ conns[c].open
    /\ \/ Request(c, "GET", "/gpustat", CountFailed(NoProcs))
       \/ \E n \in 0 .. MaxDevices :
            \E np \in ProcTables(n) :
               \E f \in UpTo(ProcessCalls(n, np), MaxFailures) :
                  Request(c, "GET", "/gpustat", Snapshot(n, f, 0, np))

\* Any other method or path: the Telemetry Source is not asked.
Other(c) ==
    \E method \in Methods, path \in Paths :
        /\ Route(method, path) = "not_found"
        /\ Request(c, method, path, IdleSnapshot)

Next ==
    \/ \E c \in ConnIds, nvmlOk \in BOOLEAN : Accept(c, nvmlOk)
    \/ \E c \in ConnIds : Metrics(c)
    \/ \E c \in ConnIds : Gpustat(c)
    \/ \E c \in ConnIds : Other(c)
    \/ \E method \in Methods, path \in Paths : Unanswered(method, path)
    \/ \E c \in ConnIds : Close(c)

Spec == Init /\ [][Next]_vars

----------------------------------------------------------------------------
(* One pass applied directly: the handler on a chosen registry and snapshot *)

\* The registry of a new collector, and the registry a healthy pass over
\* MaxDevices devices at load 1 leaves behind.
PriorRegistries ==
    {NewRegistry, collect(NewRegistry, Snapshot(MaxDevices, {}, 1, NoProcs)).registry}

\* The lookups of the running processes in the process table.
LookupCalls(np) == {x \in ProcCalls(np) : x.call = "procfs"}
PassCall(method, path, s, reg) ==
    [method |-> method, path |-> path, snap |-> s, before |-> reg, done |-> FALSE,
     response |-> NoCall.response]

\* collect on either prior registry, under every combination of failing sensor
\* reads with at most one failing identity call (the first one ends the pass).
InitCollect ==
    /\ server = "listening"
    /\ conns = [c \in ConnIds |-> Closed]
    /\ inits = 0
    /\ served = FALSE
    /\ last = NoRequest
    /\ \E reg \in PriorRegistries :
          \/ call = PassCall("GET", "/metrics", CountFailed(NoProcs), reg)
          \/ \E n \in 0 .. MaxDevices :
               \E a \in SUBSET DevCalls(n, SensorCalls),
                  b \in UpTo(DevCalls(n, IdentityCalls), 1) :
                     call = PassCall("GET", "/metrics", Snapshot(n, a \cup b, 0, NoProcs), reg)

\* process under every combination of failing process-table lookups with at
\* most one other failing call.
InitProcess ==
    /\ server = "listening"
    /\ conns = [c \in ConnIds |-> Closed]
    /\ inits = 0
    /\ served = FALSE
    /\ last = NoRequest
    /\ \/ call = PassCall("GET", "/gpustat", CountFailed(NoProcs), NewRegistry)
       \/ \E n \in 0 .. MaxDevices :
            \E np \in ProcTables(n) :
               \E a \in SUBSET LookupCalls(np),
                  b \in UpTo(ProcessCalls(n, np) \ LookupCalls(np), 1) :
                     call = PassCall("GET", "/gpustat", Snapshot(n, a \cup b, 0, np), NewRegistry)

ApplyPass ==
    /\ call.method # ""
    /\ ~call.done
    /\ call' = [call EXCEPT !.done = TRUE,
                            !.response = Respond(call.before, call.method, call.path, call.snap)]
    /\ UNCHANGED <<server, conns, inits, served, last>>

SpecCollect == InitCollect /\ [][ApplyPass]_vars
SpecProcess == InitProcess /\ [][ApplyPass]_vars

----------------------------------------------------------------------------
(* What the claims speak of *)

DevicesIn(s) == 0 .. (s.count - 1)

\* The device count and every present device's handle, minor number, UUID
\* and name resolve.
StructureResolves(s) == s.countOk /\ \A d \in DevicesIn(s) : IdentityOk(s, d)

\* The device-level gauges, the sensor read each belongs to and the reading
\* it shows.
DeviceMetrics ==
    {"gpu_utilization", "memory_utilization", "power_usage_milliwatts",
     "temperature_celsius", "fanspeed_percent", "memory_total_bytes",
     "memory_free_bytes", "memory_used_bytes"}
SensorOf(metric) ==
    IF metric \in {"gpu_utilization", "memory_utilization"} THEN "utilization_rates"
    ELSE IF metric = "power_usage_milliwatts" THEN "power_usage"
    ELSE IF metric = "temperature_celsius" THEN "temperature"
    ELSE IF metric = "fanspeed_percent" THEN "fan_speed"
    ELSE "memory_info"
ReadingOf(s, d, metric) ==
    IF metric = "gpu_utilization" THEN Utilization(s, d).gpu
    ELSE IF metric = "memory_utilization" THEN Utilization(s, d).memory
    ELSE IF metric = "power_usage_milliwatts" THEN PowerUsage(s, d)
    ELSE IF metric = "temperature_celsius" THEN Temperature(s, d)
    ELSE IF metric = "fanspeed_percent" THEN FanSpeed(s, d)
    ELSE IF metric = "memory_total_bytes" THEN MemoryInfo(s, d).total
    ELSE IF metric = "memory_free_bytes" THEN MemoryInfo(s, d).free
    ELSE MemoryInfo(s, d).used

\* The gauge `metric` of device d holds exactly the value v.
GaugeHolds(series, metric, d, v) ==
    {x.value : x \in {y \in series : y.metric = metric /\ y.labels = DeviceLabels(d)}} = {v}

CollectApplied == call.done /\ Route(call.method, call.path) = "metrics"
ProcessApplied == call.done /\ Route(call.method, call.path) = "gpustat"
MetricsAnswered ==
    last.answered /\ Route(last.method, last.path) = "metrics" /\ last.status = 200
PassRequested ==
    last.method # "" /\ Route(last.method, last.path) \in {"metrics", "gpustat"}

----------------------------------------------------------------------------
\* C1: in a collect pass whose device count and labels all resolve, the pass
\* returns Ok and every sensor read that succeeds on a device leaves its gauges,
\* under that device's labels, at the values just read, whichever other reads
\* failed on this or another device.
C1_HealthySensorsReported ==
    (CollectApplied /\ StructureResolves(call.snap)) =>
        /\ ~call.response.panicked
        /\ call.response.status = 200
        /\ \A d \in DevicesIn(call.snap), m \in DeviceMetrics :
              CallOk(call.snap, d, SensorOf(m)) =>
                 GaugeHolds(call.response.registry.series, m, d, ReadingOf(call.snap, d, m))

\* A pass over at least two devices on a registry a previous pass has filled:
\* a read fails on device 0 and another on device 1, while other reads succeed.
C1_Witness ==
    /\ CollectApplied
    /\ StructureResolves(call.snap)
    /\ call.snap.count >= 2
    /\ call.before.series # {}
    /\ ~CallOk(call.snap, 0, "power_usage")
    /\ CallOk(call.snap, 0, "temperature")
    /\ ~CallOk(call.snap, 1, "utilization_rates")
    /\ CallOk(call.snap, 1, "memory_info")
    /\ GaugeHolds(call.response.registry.series, "memory_used_bytes", 1,
                  MemoryInfo(call.snap, 1).used)

C4_FanSeriesOmitted ==
    MetricsAnswered =>
        \A d \in DevicesIn(last.snap) :
            (/\ ~CallOk(last.snap, d, "fan_speed")
             /\ \A c \in SensorCalls \ {"fan_speed"} : CallOk(last.snap, d, c))
            =>
            /\ \A m \in DeviceMetrics \ {"fanspeed_percent"} :
                  Sample(m, DeviceLabels(d), ReadingOf(last.snap, d, m)) \in last.body
            /\ ~\E x \in last.body :
                  x.name = SampleName("fanspeed_percent") /\ x.labels = DeviceLabels(d)

\* C5: a /metrics pass is idempotent (the same answers once more leave the
\* registry as it is) and self-contained (its result is what the same answers
\* give on a registry no pass has touched).
C5_PassSelfContained ==
    MetricsAnswered =>
        /\ Gather(collect(conns[last.conn].registry, last.snap).registry) = last.body
        /\ Gather(collect(NewRegistry, last.snap).registry) = last.body

\* C6: Collector::new runs once in the life of the process, and a process
\* whose Collector::new failed has answered no request.
C6_InitialisedOnce ==
    /\ inits <= 1
    /\ (server = "crashed" => ~served)

\* The processes of device d whose lookup in the process table succeeds, and
\* those whose identity resolves at every step.
LookedUp(s, d) == {i \in 1 .. s.nprocs[d] : StepOk(s, d, i, "procfs")}
Resolved(s, d) == {i \in 1 .. s.nprocs[d] : \A c \in ProcSteps : StepOk(s, d, i, c)}

RECURSIVE LinesBefore(_, _)
LinesBefore(s, d) ==
    IF d = 0 THEN 0 ELSE LinesBefore(s, d - 1) + Cardinality(LookedUp(s, d - 1))

\* The device the k-th line of the output belongs to, counting the devices in
\* index order.
DeviceOfLine(s, k) ==
    CHOOSE d \in DevicesIn(s) :
        LinesBefore(s, d) < k /\ k <= LinesBefore(s, d) + Cardinality(LookedUp(s, d))

\* The text of a /gpustat body cut at its line separators.
RECURSIVE SplitFrom(_, _, _, _)
SplitFrom(text, k, line, lines) ==
    IF k > Len(text) THEN Append(lines, line)
    ELSE IF text[k] = "\n" THEN SplitFrom(text, k + 1, <<>>, Append(lines, line))
    ELSE SplitFrom(text, k + 1, Append(line, text[k]), lines)
BodyLines(text) == IF text = <<>> THEN <<>> ELSE SplitFrom(text, 1, <<>>, <<>>)

\* Nothing but the identity of processes fails in the pass.
OnlyIdentityFails(s) ==
    /\ StructureResolves(s)
    /\ \A d \in DevicesIn(s) :
          CallOk(s, d, EnumCall) /\ \A c \in ProcessSensors : CallOk(s, d, c)

\* C7: in a process pass, a process whose identity fails to resolve at any
\* step (process-table lookup, command line, owning user) is left out and the
\* pass goes on: the response is a 200 with one line per resolved process.
C7_UnresolvedProcessSkipped ==
    (ProcessApplied /\ OnlyIdentityFails(call.snap)) =>
        /\ call.response.status = 200
        /\ Len(BodyLines(call.response.body)) =
              LinesBefore(call.snap, call.snap.count)
        /\ \A d \in DevicesIn(call.snap) : LookedUp(call.snap, d) = Resolved(call.snap, d)

\* C8: the body of a successful /gpustat pass is one line per running process
\* found in the process table, devices in index order and each device's
\* processes in the order enumerated, and nothing else; with no running
\* process anywhere the response is a 200 with an empty body.
C8_OneLinePerProcess ==
    ProcessApplied =>
        /\ call.response.status = 200 =>
              LET lines == BodyLines(call.response.body)
              IN /\ Len(lines) = LinesBefore(call.snap, call.snap.count)
                 /\ \A k \in 1 .. Len(lines) :
                       lines[k] = GpustatLine(call.snap, DeviceOfLine(call.snap, k))
        /\ (/\ OnlyIdentityFails(call.snap)
            /\ \A d \in DevicesIn(call.snap) : call.snap.nprocs[d] = 0)
           => (call.response.status = 200 /\ call.response.body = <<>>)

\* A successful pass over two devices that both contribute lines, one process
\* of device 0 being absent from the process table.
C8_Witness ==
    /\ ProcessApplied
    /\ call.response.status = 200
    /\ call.snap.count >= 2
    /\ call.snap.nprocs[0] >= 2
    /\ ~StepOk(call.snap, 0, 1, "procfs")
    /\ Cardinality(LookedUp(call.snap, 0)) >= 1
    /\ Cardinality(LookedUp(call.snap, 1)) >= 1
    /\ Len(BodyLines(call.response.body)) >= 2

\* C9: after a pass, process_memory_used_bytes holds one value for every
\* running process whose identity resolves, under six labels of which the
\* first three are the labels of the process's device.
C9_ProcessGaugeWritten ==
    (ProcessApplied /\ call.response.status = 200) =>
        \A d \in DevicesIn(call.snap) :
            \A i \in Resolved(call.snap, d) :
                Cardinality({x \in call.response.registry.series :
                                /\ x.metric = "process_memory_used_bytes"
                                /\ Len(x.labels) = Len(PROCESS_LABELS)
                                /\ SubSeq(x.labels, 1, 3) = DeviceLabels(d)
                                /\ x.labels[4] = ToString(Pid(d, i))}) = 1

\* C10: a request that is neither GET /metrics nor GET /gpustat is answered
\* with status 404 and the body "Not found", whatever the state of the
\* collector and also when its construction fails.
C10_UnknownRouteNotFound ==
    (last.method # "" /\ Route(last.method, last.path) = "not_found") =>
        /\ last.answered
        /\ last.status = 404
        /\ last.body = "Not found"

====
